---- MODULE Spec2Model ----
(***************************************************************************)
(* The analog clock component App (src/.eslintrc.cjs, lines 33-189): the   *)
(* angle calculator getAngles, the second-aligned ticker (runTick), the    *)
(* frame-rate refresher (loop), the two effect cleanups and the render of  *)
(* the sixty minute-tick labels.                                           *)
(*                                                                         *)
(* A Date is its number of local milliseconds since midnight of day 0.     *)
(* The wall clock is monotone and advances with real elapsed time.         *)
(* Angles are exact rationals kept as integer numerators:                  *)
(*   secondsAngle in 1/1000 degree, minutesAngle in 1/60000 degree,        *)
(*   hoursAngle in 1/3600000 degree.                                       *)
(***************************************************************************)
EXTENDS Integers, Sequences, FiniteSets

VARIABLES
  clock,       \* the wall clock, in ms
  phase,       \* "unmounted" | "committed" | "mounted" | "tearing"
  inst,        \* number of the current App instance (0: none yet)
  now,         \* the PointInTime state cell of the current instance
  dirty,       \* a re-render is scheduled (setNow was called)
  tickRef,     \* tickRef.current (0 is null)
  rafRef,      \* rafRef.current (0 is null)
  running,     \* the closure variable of the RAF effect
  timers,      \* the browser's active timeouts: [id, due, inst]
  frames,      \* the browser's pending animation frame requests: [id, inst]
  nextTimer,   \* next handle setTimeout returns
  nextFrame,   \* next handle requestAnimationFrame returns
  rendered,    \* <<>> or <<the output of the last render>>
  ticks,       \* the last two runTick executions of the current instance
  lateSetNow,  \* a runTick of a torn-down instance has called setNow
  teardown     \* what the last teardown found: [timerDue, timer, frame]

vars == <<clock, phase, inst, now, dirty, tickRef, rafRef, running, timers,
          frames, nextTimer, nextFrame, rendered, ticks, lateSetNow, teardown>>

----------------------------------------------------------------------------
\* Bounds of the model

MaxElapsed == 2000     \* ms of wall clock explored after the base instant
MaxLatency == 1000     \* largest dispatch latency of a timeout explored
MaxReadGap == 1        \* largest clock advance inside one handler
MaxTimerId == 4        \* timeouts allocated in a run
MaxFrameId == 3        \* frame requests allocated in a run
MaxInstances == 2      \* mounts in a run

\* the millisecond offsets within a second at which the environment acts
Offsets == {0, 500, 999}

TimeOf(h, m, s, ms) == ((h * 60 + m) * 60 + s) * 1000 + ms

Base == TimeOf(23, 59, 58, 500)

\* the instants at which the view is first rendered in SpecView
ViewTimes ==
  { TimeOf(h, m, s, ms) : h \in {0, 1, 3, 11, 12, 13, 23}, m \in {0, 1, 5, 59},
                          s \in {0, 1, 9, 59}, ms \in {0, 500, 999} }

----------------------------------------------------------------------------
\* Date accessors

getMilliseconds(d) == d % 1000

getSeconds(d) == (d \div 1000) % 60

getMinutes(d) == (d \div 60000) % 60

getHours(d) == (d \div 3600000) % 24

\* getAngles with the hour of the day not reduced to the dial
getAngles_noMod12(date) ==
  LET ms == getMilliseconds(date)
      seconds == getSeconds(date) * 1000 + ms
      minutes == getMinutes(date) * 60000 + seconds
      hours == getHours(date) * 3600000 + minutes
  IN [secondsAngle |-> seconds * 6,
      minutesAngle |-> minutes * 6,
      hoursAngle |-> hours * 30]

\* Angle calculator
getAngles(date) ==
  LET ms == getMilliseconds(date)
      seconds == getSeconds(date) * 1000 + ms            \* in 1/1000 s
      minutes == getMinutes(date) * 60000 + seconds      \* in 1/60000 min
      hours == (getHours(date) % 12) * 3600000 + minutes \* in 1/3600000 h
  IN [secondsAngle |-> seconds * 6,
      minutesAngle |-> minutes * 6,
      hoursAngle |-> hours * 30]

----------------------------------------------------------------------------
\* Minute-tick labels

\* the six new Date() of lines 129-131: the first k see the clock at t,
\* the others see it g ms later
Reads(t, k, g) == [j \in 1..6 |-> IF j <= k THEN t ELSE t + g]

currentSecond(r) == IF getSeconds(r[1]) = 0 THEN 60 ELSE getSeconds(r[2])

currentMinute(r) == IF getMinutes(r[3]) = 0 THEN 60 ELSE getMinutes(r[4])

currentHour(r) == IF getHours(r[5]) % 12 = 0 THEN 12 ELSE getHours(r[6]) % 12

\* the classification with the minute tested before the second
classNames_minuteFirst(i, cs, cm, ch) ==
  IF i = cm THEN "active-minute"
  ELSE IF i = cs THEN "active-second"
  ELSE IF i = ch THEN "active-hour"
  ELSE "default"

classNames(i, cs, cm, ch) ==
  IF i = cs THEN "active-second"
  ELSE IF i = cm THEN "active-minute"
  ELSE IF i = ch THEN "active-hour"
  ELSE "default"

\* one execution of the body of App with state d
Render(d, r) ==
  [now |-> d,
   angles |-> getAngles(d),
   reads |-> r,
   currentSecond |-> currentSecond(r),
   currentMinute |-> currentMinute(r),
   currentHour |-> currentHour(r)]

\* the class of each of the sixty labels in the output v of a render
Labels(v) ==
  [i \in 1..60 |-> classNames(i, v.currentSecond, v.currentMinute, v.currentHour)]

\* the advances of the clock inside a render: none, or g ms after k reads
RenderSteps == {<<0, 0>>} \cup ((0..5) \X (1..MaxReadGap))

\* the clock stays on the instants the environment acts at
OnGrid(t) == t % 1000 \in Offsets

----------------------------------------------------------------------------
\* Browser primitives

\* a clearTimeout that cancels nothing
clearTimeout_noop(ts, id) == ts

clearTimeout(ts, id) == {t \in ts : t.id # id}

\* a cancelAnimationFrame that cancels nothing
cancelAnimationFrame_noop(fs, id) == fs

cancelAnimationFrame(fs, id) == {f \in fs : f.id # id}

\* the delay taken as the time since the last second boundary
NextDelay_sinceBoundary(nowMillis) == nowMillis % 1000

\* delay to the next second boundary
NextDelay(nowMillis) == 1000 - (nowMillis % 1000)

\* the instance i is the mounted one
Live(i) == i = inst /\ phase \in {"committed", "mounted"}

\* a runTick that stores only the first handle
TickRefAfter_keepFirst(i, id) == IF i = inst /\ tickRef = 0 THEN id ELSE tickRef

\* tickRef.current after runTick of instance i got the handle id
TickRefAfter(i, id) == IF i = inst THEN id ELSE tickRef

\* runTick of instance i, the clock advancing g ms between new Date() and
\* Date.now(); ts is the timer table when it starts
runTick(i, g, ts) ==
  LET read == clock + g
      tick == [at |-> clock, read |-> read, due |-> read + NextDelay(read)]
  IN /\ now' = IF Live(i) THEN clock ELSE now
     /\ dirty' = IF Live(i) THEN TRUE ELSE dirty
     /\ lateSetNow' = IF Live(i) THEN lateSetNow ELSE TRUE
     /\ clock' = read
     /\ timers' = ts \cup {[id |-> nextTimer, due |-> tick.due, inst |-> i]}
     /\ nextTimer' = nextTimer + 1
     /\ tickRef' = TickRefAfter(i, nextTimer)
     /\ ticks' = IF i # inst THEN ticks
                 ELSE IF Len(ticks) = 0 THEN <<tick>>
                 ELSE <<ticks[Len(ticks)], tick>>

----------------------------------------------------------------------------
Init ==
  /\ clock = Base
  /\ phase = "unmounted"
  /\ inst = 0
  /\ now = 0
  /\ dirty = FALSE
  /\ tickRef = 0
  /\ rafRef = 0
  /\ running = FALSE
  /\ timers = {}
  /\ frames = {}
  /\ nextTimer = 1
  /\ nextFrame = 1
  /\ rendered = <<>>
  /\ ticks = <<>>
  /\ lateSetNow = FALSE
  /\ teardown = [timer |-> FALSE, timerDue |-> FALSE, frame |-> FALSE]

\* the view mounts: useState(() => new Date()) and the first render
Mount(k, g) ==
  /\ phase = "unmounted"
  /\ inst < MaxInstances
  /\ OnGrid(clock + g)
  /\ inst' = inst + 1
  /\ phase' = "committed"
  /\ now' = clock
  /\ dirty' = FALSE
  /\ tickRef' = 0
  /\ rafRef' = 0
  /\ running' = FALSE
  /\ rendered' = <<Render(clock, Reads(clock, k, g))>>
  /\ clock' = clock + g
  /\ ticks' = <<>>
  /\ teardown' = [timer |-> FALSE, timerDue |-> FALSE, frame |-> FALSE]
  /\ UNCHANGED <<timers, frames, nextTimer, nextFrame, lateSetNow>>

\* the two effects run after the first commit
Effects(g) ==
  /\ phase = "committed"
  /\ OnGrid(clock + g)
  /\ nextTimer <= MaxTimerId
  /\ nextFrame <= MaxFrameId
  /\ phase' = "mounted"
  /\ runTick(inst, g, timers)
  /\ running' = TRUE
  /\ frames' = frames \cup {[id |-> nextFrame, inst |-> inst]}
  /\ rafRef' = nextFrame
  /\ nextFrame' = nextFrame + 1
  /\ UNCHANGED <<inst, rendered, teardown>>

\* a timeout fires: the browser runs runTick of the instance that set it
Fire(t, g) ==
  /\ t \in timers
  /\ clock >= t.due
  /\ OnGrid(clock + g)
  /\ nextTimer <= MaxTimerId
  /\ runTick(t.inst, g, timers \ {t})
  /\ UNCHANGED <<phase, inst, rafRef, running, frames, nextFrame, rendered,
                 teardown>>

\* a loop that publishes the time on every frame
loop_setNow(f) ==
  /\ f \in frames
  /\ LET run == IF f.inst = inst THEN running ELSE FALSE
     IN IF ~run
        THEN /\ frames' = frames \ {f}
             /\ UNCHANGED <<rafRef, nextFrame, now, dirty>>
        ELSE /\ nextFrame <= MaxFrameId
             /\ now' = clock
             /\ dirty' = TRUE
             /\ frames' = (frames \ {f}) \cup {[id |-> nextFrame, inst |-> f.inst]}
             /\ rafRef' = nextFrame
             /\ nextFrame' = nextFrame + 1
  /\ UNCHANGED <<clock, phase, inst, tickRef, running, timers,
                 nextTimer, rendered, ticks, lateSetNow, teardown>>

\* an animation frame: the browser runs loop of the instance that asked
loop(f) ==
  /\ f \in frames
  /\ LET run == IF f.inst = inst THEN running ELSE FALSE
     IN IF ~run
        THEN /\ frames' = frames \ {f}
             /\ UNCHANGED <<rafRef, nextFrame>>
        ELSE /\ nextFrame <= MaxFrameId
             /\ frames' = (frames \ {f}) \cup {[id |-> nextFrame, inst |-> f.inst]}
             /\ rafRef' = nextFrame
             /\ nextFrame' = nextFrame + 1
  /\ UNCHANGED <<clock, phase, inst, now, dirty, tickRef, running, timers,
                 nextTimer, rendered, ticks, lateSetNow, teardown>>

\* React re-renders the view after setNow
ReRender(k, g) ==
  /\ phase = "mounted"
  /\ dirty
  /\ OnGrid(clock + g)
  /\ dirty' = FALSE
  /\ rendered' = <<Render(now, Reads(clock, k, g))>>
  /\ clock' = clock + g
  /\ UNCHANGED <<phase, inst, now, tickRef, rafRef, running, timers, frames,
                 nextTimer, nextFrame, ticks, lateSetNow, teardown>>

\* cleanup of the ticker effect
CleanupTicker ==
  /\ phase = "mounted"
  /\ phase' = "tearing"
  /\ timers' = IF tickRef # 0 THEN clearTimeout(timers, tickRef) ELSE timers
  /\ frames' = IF rafRef # 0 THEN cancelAnimationFrame(frames, rafRef) ELSE frames
  /\ teardown' = [timer |-> \E t \in timers : t.id = tickRef,
                  timerDue |-> \E t \in timers : t.id = tickRef /\ t.due <= clock,
                  frame |-> \E f \in frames : f.id = rafRef]
  /\ UNCHANGED <<clock, inst, now, dirty, tickRef, rafRef, running, nextTimer,
                 nextFrame, rendered, ticks, lateSetNow>>

\* cleanup of the RAF effect
CleanupRaf ==
  /\ phase = "tearing"
  /\ phase' = "unmounted"
  /\ running' = FALSE
  /\ frames' = IF rafRef # 0 THEN cancelAnimationFrame(frames, rafRef) ELSE frames
  /\ rendered' = <<>>
  /\ ticks' = <<>>
  /\ UNCHANGED <<clock, inst, now, dirty, tickRef, rafRef, timers, nextTimer,
                 nextFrame, lateSetNow, teardown>>

\* real time passes, to one of the instants the environment acts at
Advance(t) ==
  /\ t > clock
  /\ OnGrid(t)
  /\ t <= Base + MaxElapsed
  /\ \A x \in timers : t <= x.due + MaxLatency
  /\ clock' = t
  /\ UNCHANGED <<phase, inst, now, dirty, tickRef, rafRef, running, timers,
                 frames, nextTimer, nextFrame, rendered, ticks, lateSetNow,
                 teardown>>

Next ==
  \/ \E s \in RenderSteps : Mount(s[1], s[2])
  \/ \E g \in 0..MaxReadGap : Effects(g)
  \/ \E t \in timers : \E g \in 0..MaxReadGap : Fire(t, g)
  \/ \E f \in frames : loop(f)
  \/ \E s \in RenderSteps : ReRender(s[1], s[2])
  \/ CleanupTicker
  \/ CleanupRaf
  \/ \E t \in (clock + 1)..(clock + 1000) : Advance(t)

Spec == Init /\ [][Next]_vars

\* The view alone: its first render at each of ViewTimes
InitView ==
  /\ clock \in ViewTimes
  /\ phase = "unmounted"
  /\ inst = 0
  /\ now = 0
  /\ dirty = FALSE
  /\ tickRef = 0
  /\ rafRef = 0
  /\ running = FALSE
  /\ timers = {}
  /\ frames = {}
  /\ nextTimer = 1
  /\ nextFrame = 1
  /\ rendered = <<>>
  /\ ticks = <<>>
  /\ lateSetNow = FALSE
  /\ teardown = [timer |-> FALSE, timerDue |-> FALSE, frame |-> FALSE]

NextView == \E s \in RenderSteps : Mount(s[1], s[2])

SpecView == InitView /\ [][NextView]_vars

----------------------------------------------------------------------------
\* Claims

\* C1: for every valid point in time, getAngles returns
\* secondsAngle = (second + ms/1000) * 6,
\* minutesAngle = (minute + (second + ms/1000)/60) * 6 and
\* hoursAngle = ((hour mod 12) + (minute + (second + ms/1000)/60)/60) * 30,
\* exactly; both sides are compared in 1/3600000 degree.
C1_AnglesExact ==
  \A n \in 1..Len(rendered) :
    LET d == rendered[n].now
        a == rendered[n].angles
        hour == getHours(d)
        minute == getMinutes(d)
        second == getSeconds(d)
        millisecond == getMilliseconds(d)
        \* second + millisecond/1000, times 1000
        secondsFraction == second * 1000 + millisecond
        \* minute + secondsFraction/60, times 60000
        minutesFraction == minute * 60000 + secondsFraction
        \* (hour mod 12) + minutesFraction/60, times 3600000
        hoursFraction == (hour % 12) * 3600000 + minutesFraction
    IN /\ a.secondsAngle * 3600 = secondsFraction * 6 * 3600
       /\ a.minutesAngle * 60 = minutesFraction * 6 * 60
       /\ a.hoursAngle = hoursFraction * 30

C1_Witness ==
  /\ Len(rendered) = 1
  /\ getHours(rendered[1].now) = 13
  /\ getMinutes(rendered[1].now) = 5
  /\ getSeconds(rendered[1].now) = 9
  /\ getMilliseconds(rendered[1].now) = 500
  /\ rendered[1].angles.secondsAngle = 57000

\* C2: after the view unmounts no ticker firing publishes a PointInTime:
\* no runTick of a torn-down instance ever calls setNow, and no timeout of a
\* torn-down instance is left to fire.
C2_NoUpdateAfterUnmount ==
  /\ lateSetNow = FALSE
  /\ \A t \in timers : t.inst = inst /\ phase = "mounted"

\* the view was unmounted while its timeout was due and not yet run
C2_Witness ==
  /\ phase = "unmounted"
  /\ teardown.timerDue
  /\ timers = {}

\* C3 (as stated): two consecutive ticker firings are separated by at least
\* 1000 ms of elapsed time.
C3_AtLeastOneSecond ==
  Len(ticks) = 2 => ticks[2].at - ticks[1].at >= 1000

\* C3 (amended): two consecutive ticker firings are separated by at least
\* the delay the earlier one computed, 1000 - (nowMillis mod 1000), which is
\* between 1 and 1000 ms; the separation can be less than 1000 ms.
C3_AtLeastTheDelay ==
  Len(ticks) = 2 =>
    /\ ticks[2].at - ticks[1].read >= 1000 - (ticks[1].read % 1000)
    /\ ticks[2].at - ticks[1].at >= 1

\* two firings half a second apart
C3_Witness ==
  /\ Len(ticks) = 2
  /\ ticks[2].at - ticks[1].at = 500

\* C4: with dispatch latency below one second, the PointInTime published
\* by a ticker firing lies in the wall-clock second right after the one of
\* the previous firing.
C4_OncePerSecond ==
  (Len(ticks) = 2 /\ ticks[2].at - ticks[1].due < 1000) =>
    ticks[2].at \div 1000 = ticks[1].at \div 1000 + 1

\* C5: in every render exactly one of the sixty labels is active-second.
C5_OneActiveSecond ==
  \A n \in 1..Len(rendered) :
    Cardinality({i \in 1..60 : Labels(rendered[n])[i] = "active-second"}) = 1

\* C6: once the teardown has run no frame request of the instance is
\* pending, so loop runs no more and requests no further frame.
C6_RefresherStops ==
  /\ phase \in {"unmounted", "committed"} => frames = {}
  /\ \A f \in frames : f.inst = inst /\ running

\* the teardown cancelled the request made by a run of loop
C6_Witness ==
  /\ phase = "unmounted"
  /\ teardown.frame
  /\ inst = 1
  /\ rafRef = 2
  /\ frames = {}

C8_LabelPriority ==
  \A n \in 1..Len(rendered) :
    LET r == rendered[n].reads
        s == IF getSeconds(r[1]) = 0 THEN 60 ELSE getSeconds(r[1])
        m == IF getMinutes(r[1]) = 0 THEN 60 ELSE getMinutes(r[1])
        h == IF getHours(r[1]) % 12 = 0 THEN 12 ELSE getHours(r[1]) % 12
    IN (\A j \in 1..6 : r[j] \div 1000 = r[1] \div 1000) =>
         \A i \in 1..60 :
           /\ i = s => Labels(rendered[n])[i] = "active-second"
           /\ (i # s /\ i = m) => Labels(rendered[n])[i] = "active-minute"
           /\ (i # s /\ i # m /\ i = h) => Labels(rendered[n])[i] = "active-hour"
           /\ (i # s /\ i # m /\ i # h) => Labels(rendered[n])[i] = "default"

\* a render at 12:00:00: label 60 is the second and hides the minute,
\* label 12 is the hour
C8_Witness ==
  /\ Len(rendered) = 1
  /\ \A j \in 1..6 : rendered[1].reads[j] = TimeOf(12, 0, 0, 500)
  /\ Labels(rendered[1])[60] = "active-second"
  /\ Labels(rendered[1])[12] = "active-hour"
  /\ Labels(rendered[1])[1] = "default"

\* C9: in every render the highlighted labels are those of the PointInTime
\* state the hands are computed from.
C9_LabelsFollowState ==
  \A n \in 1..Len(rendered) :
    LET d == rendered[n].now
        s == IF getSeconds(d) = 0 THEN 60 ELSE getSeconds(d)
        m == IF getMinutes(d) = 0 THEN 60 ELSE getMinutes(d)
        h == IF getHours(d) % 12 = 0 THEN 12 ELSE getHours(d) % 12
    IN /\ rendered[n].angles = getAngles(d)
       /\ Labels(rendered[n])[s] = "active-second"
       /\ \A i \in 1..60 :
            /\ Labels(rendered[n])[i] = "active-second" => i = s
            /\ Labels(rendered[n])[i] = "active-minute" => i = m
            /\ Labels(rendered[n])[i] = "active-hour" => i = h

\* C10: at most one ticker timeout is pending, exactly one while the view
\* is mounted, and tickRef holds the handle of the pending one.
C10_OnePendingTimeout ==
  /\ Cardinality(timers) <= 1
  /\ phase = "mounted" => Cardinality(timers) = 1
  /\ \A t \in timers : t.id = tickRef

\* the second instance of the view, after one of its timeouts has fired
C10_Witness ==
  /\ inst = 2
  /\ phase = "mounted"
  /\ Len(ticks) = 2
  /\ Cardinality(timers) = 1
====
